---- MODULE Spec2Model ----
(***************************************************************************)
(* A model of derinet.py: the DeriNet object (its _data list of Node       *)
(* tuples, its _index dictionary and its _fname) and its methods load,     *)
(* lex_sort, update_from_file, update, get_lexeme_by_id, get_id_by_lemma   *)
(* and get_subtree_by_id.                                                  *)
(*                                                                         *)
(* Representation of Python values:                                        *)
(*   str          a sequence of code points ("a" is <<97>>, '' is <<>>);   *)
(*                the constant pos tag is kept as a TLA+ string            *)
(*   None / x     None == <<>>, a present value x is Some(x) == <<x>>      *)
(*   parent_id    '' is <<>>, the integer p is <<p>>                       *)
(*   list         a sequence; Python index i (negative ones count from the *)
(*                end) is position Pos(len, i), defined when InRange       *)
(*   dict         a function on the set of its keys                        *)
(*   Node         a record of the six fields; an entry of a children list  *)
(*                is a reference to a Node tuple, kept as Ref(node), the   *)
(*                five immutable fields of the tuple it points to          *)
(*   exception    the name of the exception class, "none" when the call    *)
(*                returns                                                  *)
(* A file is the sequence of its lines, a line the tuple of its five       *)
(* fields after split('\t') and int(); only well-formed lines are drawn.   *)
(* save, get_parent_by_id, get_children_by_id and print_subtree_by_id    *)
(* change nothing of the object and are left out.                          *)
(* An intermediate value used more than once is bound by a quantifier over *)
(* a singleton set ({f(v) : v \in {e}}, \E v \in {e}), which evaluates    *)
(* it once.                                                                *)
(***************************************************************************)
EXTENDS Integers, Sequences, FiniteSets, TLC

VARIABLES data, index, fname, origin, result

vars == <<data, index, fname, origin, result>>

(* ------------------------------ bounds -------------------------------- *)

MaxLines == 2

MaxValidLines == 3

MaxNew == 1

MaxData == 2

(* ------------------------------ values -------------------------------- *)

None == <<>>

Some(x) == <<x>>

EmptyDict == [k \in {} |-> <<>>]

DictSet(d, k, v) == [x \in (DOMAIN d) \cup {k} |-> IF x = k THEN v ELSE d[x]]

InRange(n, i) == -n <= i /\ i < n

Pos(n, i) == IF i >= 0 THEN i + 1 ELSE n + i + 1

Lemmas == {<<66>>, <<97>>}

OtherLemma == <<98>>

Morphs == {<<120>>, <<121>>}

OtherMorph == <<122>>

FileNames == {"derinet-1-2.tsv"}

Node(lex_id, lemma, morph, pos, parent_id, children) ==
    [lex_id |-> lex_id, lemma |-> lemma, morph |-> morph, pos |-> pos,
     parent_id |-> parent_id, children |-> children]

Ref(node) ==
    [lex_id |-> node.lex_id, lemma |-> node.lemma, morph |-> node.morph,
     pos |-> node.pos, parent_id |-> node.parent_id]

(* ------------------------------ inputs -------------------------------- *)

Lines ==
    {<<i, l, m, "N", p>> : i \in 0..MaxLines, l \in Lemmas, m \in Morphs,
                           p \in {<<>>} \cup {<<q>> : q \in -1..MaxLines}}

FilesOfLen(n) == [1..n -> Lines]

ValidParents(n) ==
    {par \in [1..n -> {<<>>} \cup {<<q>> : q \in 0..(n - 1)}] :
        \A i \in 1..n : par[i] # <<i - 1>>}

ValidFile(n, k, par) ==
    [i \in 1..n |-> <<i - 1, k[i][1], k[i][2], "N", par[i]>>]

NewNodes ==
    {Node(ln[1], ln[2], ln[3], ln[4], ln[5], <<>>) : ln \in Lines}

NewData == UNION {[1..n -> NewNodes] : n \in 0..MaxNew}

(* ------------------------ _read_nodes_from_file ----------------------- *)

RECURSIVE ReadIndex(_, _)
ReadIndex(file, k) ==
    IF k = 0 THEN EmptyDict
    ELSE LET prev == ReadIndex(file, k - 1)
             lemma == file[k][2]
             morph == file[k][3]
             inner == IF lemma \in DOMAIN prev THEN prev[lemma] ELSE EmptyDict
         IN  DictSet(prev, lemma, DictSet(inner, morph, file[k][1]))

read_nodes_from_file(file) ==
    [data  |-> [i \in 1..Len(file) |->
                   Node(file[i][1], file[i][2], file[i][3], file[i][4],
                        file[i][5], <<>>)],
     index |-> ReadIndex(file, Len(file))]

(* -------------------------- _populate_children ------------------------ *)

RECURSIVE PopulateFrom(_, _)
PopulateFrom(d, i) ==
    IF i > Len(d) THEN [data |-> d, exc |-> "none"]
    ELSE IF d[i].parent_id = <<>> THEN PopulateFrom(d, i + 1)
    ELSE LET p == d[i].parent_id[1]
         IN  IF ~InRange(Len(d), p) THEN [data |-> d, exc |-> "IndexError"]
             ELSE CHOOSE r \in
                    {PopulateFrom(d1, i + 1) :
                       d1 \in {[d EXCEPT ![Pos(Len(d), p)].children =
                                             Append(@, Ref(d[i]))]}} : TRUE

populate_children(d) == PopulateFrom(d, 1)

(* -------------------------------- load -------------------------------- *)

LoadRead(r) ==
    IF Len(r.data) = 0
    THEN [data |-> r.data, index |-> r.index, exc |-> "IndexError"]
    ELSE IF Len(r.data) - 1 # r.data[Len(r.data)].lex_id
    THEN [data |-> r.data, index |-> r.index, exc |-> "NameError"]
    ELSE CHOOSE e \in {[data |-> pc.data, index |-> r.index, exc |-> pc.exc] :
                         pc \in {populate_children(r.data)}} : TRUE

load_effect(file) ==
    CHOOSE e \in {LoadRead(r) : r \in {read_nodes_from_file(file)}} : TRUE

ValidInput(file) ==
    /\ \A i \in 1..Len(file) : file[i][1] = i - 1
    /\ \A i \in 1..Len(file) :
          \/ file[i][5] = <<>>
          \/ /\ file[i][5][1] \in 0..(Len(file) - 1)
             /\ file[i][5][1] # i - 1

load_body(name, exists, file) ==
    IF ~exists
    THEN /\ result' = [op |-> "load", args |-> <<name>>, exc |-> "Exception",
                       ret |-> None, changed |-> FALSE, prior |-> origin]
         /\ UNCHANGED <<data, index, fname, origin>>
    ELSE \E e \in {load_effect(file)} :
             /\ data' = e.data
             /\ index' = e.index
             /\ fname' = IF e.exc = "none" THEN Some(name) ELSE fname
             /\ origin' = [op |-> "load", exc |-> e.exc,
                           valid |-> ValidInput(file)]
             /\ result' = [op |-> "load", args |-> <<name, file>>,
                           exc |-> e.exc,
                           ret |-> IF e.exc = "none" THEN Some(name) ELSE None,
                           changed |-> (e.data # data \/ e.index # index),
                           prior |-> origin]

(* A DeriNet object is loaded once in its life (as in __main__): load is  *)
(* taken by an object no loading or changing call has been made on.       *)
Fresh == origin.op = "__init__"

load ==
    /\ Fresh
    /\ \E name \in FileNames, exists \in BOOLEAN, n \in 0..MaxLines :
          \E file \in FilesOfLen(n) : load_body(name, exists, file)

load_valid ==
    /\ Fresh
    /\ \E name \in FileNames, n \in 1..MaxValidLines :
          \E k \in [1..n -> Lemmas \X Morphs], par \in ValidParents(n) :
              load_body(name, TRUE, ValidFile(n, k, par))

(* ------------------------------ lex_sort ------------------------------ *)

lower(s) == [i \in 1..Len(s) |-> IF s[i] \in 65..90 THEN s[i] + 32 ELSE s[i]]

(* s < t for two str values: by code point, a proper prefix first *)
StrLess(s, t) ==
    \E k \in 1..(Len(t)) :
        /\ \A j \in 1..(k - 1) : j <= Len(s) /\ s[j] = t[j]
        /\ \/ k = Len(s) + 1
           \/ k <= Len(s) /\ s[k] < t[k]

key(x) == <<lower(x.lemma), x.morph>>

KeyLess(a, b) ==
    \/ StrLess(a[1], b[1])
    \/ a[1] = b[1] /\ StrLess(a[2], b[2])

(* list.sort is stable: equal keys keep their order. keys[i] is the key *)
(* of d[i]; Rank is the position d[i] is moved to.                       *)
Rank(keys, i) ==
    Cardinality({j \in 1..Len(keys) :
        \/ KeyLess(keys[j], keys[i])
        \/ keys[j] = keys[i] /\ j < i}) + 1

Ranks(d) ==
    CHOOSE rank \in
      {[i \in 1..Len(d) |-> Rank(keys, i)] :
         keys \in {[i \in 1..Len(d) |-> key(d[i])]}} : TRUE

sorted(d) ==
    CHOOSE s \in
      {[r \in 1..Len(d) |-> d[CHOOSE i \in 1..Len(d) : rank[i] = r]] :
         rank \in {Ranks(d)}} : TRUE

RECURSIVE ReverseFrom(_, _, _)
ReverseFrom(d, rev, i) ==
    IF i > Len(d) THEN [rev |-> rev, exc |-> "none"]
    ELSE IF ~InRange(Len(d), d[i].lex_id)
    THEN [rev |-> rev, exc |-> "IndexError"]
    ELSE CHOOSE r \in
           {ReverseFrom(d, rev1, i + 1) :
              rev1 \in {[rev EXCEPT ![Pos(Len(d), d[i].lex_id)] = i - 1]}} : TRUE

reverse_id_index(d) == ReverseFrom(d, [i \in 1..Len(d) |-> 0], 1)

remap_parent_stale(node, rev) == node.parent_id

remap_parent(node, rev) ==
    IF node.parent_id = <<>> THEN <<>>
    ELSE Some(rev[Pos(Len(rev), node.parent_id[1])])

replace_keep_children(node, i, parent_id) ==
    Node(i, node.lemma, node.morph, node.pos, parent_id, node.children)

replace(node, i, parent_id) ==
    Node(i, node.lemma, node.morph, node.pos, parent_id, <<>>)

RECURSIVE ReindexFrom(_, _, _)
ReindexFrom(d, rev, i) ==
    IF i > Len(d) THEN [data |-> d, exc |-> "none"]
    ELSE IF d[i].parent_id # <<>> /\ ~InRange(Len(rev), d[i].parent_id[1])
    THEN [data |-> d, exc |-> "IndexError"]
    ELSE CHOOSE r \in
           {ReindexFrom(d1, rev, i + 1) :
              d1 \in {[d EXCEPT ![i] =
                         replace(d[i], i - 1, remap_parent(d[i], rev))]}} : TRUE

Reindexed(x) ==
    IF x.exc # "none" THEN x ELSE populate_children(x.data)

SortedReversed(s, r) ==
    IF r.exc # "none" THEN [data |-> s, exc |-> r.exc]
    ELSE CHOOSE e \in {Reindexed(x) : x \in {ReindexFrom(s, r.rev, 1)}} : TRUE

Sorted(s) ==
    CHOOSE e \in {SortedReversed(s, r) : r \in {reverse_id_index(s)}} : TRUE

lex_sort_effect(d) ==
    CHOOSE e \in {Sorted(s) : s \in {sorted(d)}} : TRUE

lex_sort ==
    \E e \in {lex_sort_effect(data)} :
        /\ data' = e.data
        /\ origin' = [op |-> "lex_sort", exc |-> e.exc,
                      valid |-> (origin.valid /\ origin.exc = "none")]
        /\ result' = [op |-> "lex_sort", args |-> <<>>, exc |-> e.exc,
                      ret |-> None, changed |-> (e.data # data),
                      prior |-> origin]
        /\ UNCHANGED <<index, fname>>

(* --------------------------- get_id_by_lemma -------------------------- *)

get_id_by_lemma(idx, lemma, morph) ==
    IF lemma \notin DOMAIN idx THEN None
    ELSE LET lemma_index == idx[lemma]
         IN  IF Cardinality(DOMAIN lemma_index) = 1
             THEN Some(lemma_index[CHOOSE m \in DOMAIN lemma_index : TRUE])
             ELSE IF morph # None /\ morph[1] \in DOMAIN lemma_index
             THEN Some(lemma_index[morph[1]])
             ELSE None

Query(op, args, exc, ret) ==
    /\ result' = [op |-> op, args |-> args, exc |-> exc, ret |-> ret,
                  changed |-> FALSE, prior |-> origin]
    /\ UNCHANGED <<data, index, fname, origin>>

call_get_id_by_lemma ==
    \E lemma \in Lemmas \cup {OtherLemma}, morph \in {None} \cup {Some(m) : m \in Morphs \cup {OtherMorph}} :
        Query("get_id_by_lemma", <<lemma, morph>>, "none",
              get_id_by_lemma(index, lemma, morph))

(* --------------------------- get_lexeme_by_id ------------------------- *)

get_lexeme_by_id(d, lex_id) ==
    IF ~InRange(Len(d), lex_id) THEN [exc |-> "IndexError", ret |-> None]
    ELSE [exc |-> "none", ret |-> Some(d[Pos(Len(d), lex_id)])]

Ids == -1..MaxLines

call_get_lexeme_by_id ==
    \E lex_id \in Ids :
        \E r \in {get_lexeme_by_id(data, lex_id)} :
            Query("get_lexeme_by_id", <<lex_id>>, r.exc, r.ret)

(* -------------------------- get_subtree_by_id ------------------------- *)

(* Node has no field named id: the argument child.id of the recursive    *)
(* call raises AttributeError for the first child, before any recursion. *)
get_subtree_by_id(d, lex_id) ==
    IF ~InRange(Len(d), lex_id) THEN [exc |-> "IndexError", ret |-> None]
    ELSE LET lexeme == d[Pos(Len(d), lex_id)]
         IN  IF lexeme.children # <<>>
             THEN [exc |-> "AttributeError", ret |-> None]
             ELSE [exc |-> "none", ret |-> Some(<<lexeme, <<>>>>)]

call_get_subtree_by_id ==
    \E lex_id \in Ids :
        \E r \in {get_subtree_by_id(data, lex_id)} :
            Query("get_subtree_by_id", <<lex_id>>, r.exc, r.ret)

(* ------------------------------- update ------------------------------- *)

update_from_file ==
    \E name \in FileNames : Query("update_from_file", <<name>>, "none", None)

RECURSIVE UpdateFrom(_, _, _, _)
UpdateFrom(d, idx, new_data, k) ==
    IF k > Len(new_data) THEN [data |-> d, index |-> idx, exc |-> "none"]
    ELSE LET new_node == new_data[k]
             lex_id == get_id_by_lemma(idx, new_node.lemma, Some(new_node.morph))
         IN  IF lex_id = None
             THEN LET d1 == Append(d, new_node)
                      n == Len(d1)
                      p == new_node.parent_id
                      d2 == IF p = <<>> THEN d1
                            ELSE [d1 EXCEPT ![Pos(n, p[1])] = d1[n]]
                      inner == IF new_node.lemma \in DOMAIN idx
                               THEN idx[new_node.lemma] ELSE EmptyDict
                  IN  IF p # <<>> /\ ~InRange(n, p[1])
                      THEN [data |-> d1, index |-> idx, exc |-> "Exception"]
                      ELSE UpdateFrom(d2,
                             DictSet(idx, new_node.lemma,
                                     DictSet(inner, new_node.morph, n - 1)),
                             new_data, k + 1)
             ELSE IF ~InRange(Len(d), lex_id[1])
             THEN [data |-> d, index |-> idx, exc |-> "IndexError"]
             ELSE UpdateFrom(d, idx, new_data, k + 1)

update_effect(d, idx, new_data) == UpdateFrom(d, idx, new_data, 1)

update ==
    \E new_data \in NewData :
        /\ Len(data) + Len(new_data) <= MaxData
        /\ \E e \in {update_effect(data, index, new_data)} :
               /\ data' = e.data
               /\ index' = e.index
               /\ origin' = [op |-> "update", exc |-> e.exc, valid |-> FALSE]
               /\ result' = [op |-> "update", args |-> <<new_data>>,
                             exc |-> e.exc, ret |-> None,
                             changed |-> (e.data # data \/ e.index # index),
                             prior |-> origin]
               /\ UNCHANGED fname

(* ------------------------------- state -------------------------------- *)

NoOrigin == [op |-> "__init__", exc |-> "none", valid |-> TRUE]

Init ==
    /\ data = <<>>
    /\ index = EmptyDict
    /\ fname = None
    /\ origin = NoOrigin
    /\ result = [op |-> "__init__", args |-> <<>>, exc |-> "none",
                 ret |-> None, changed |-> FALSE, prior |-> NoOrigin]

Next ==
    \/ load
    \/ lex_sort
    \/ update_from_file
    \/ update
    \/ call_get_id_by_lemma
    \/ call_get_lexeme_by_id
    \/ call_get_subtree_by_id

Spec == Init /\ [][Next]_vars

NextValid ==
    \/ load_valid
    \/ lex_sort

SpecValid == Init /\ [][NextValid]_vars

(* ------------------------- the Store invariants ----------------------- *)

(* I1: the ids are the positions 0..N-1 *)
I1(d) == \A i \in 1..Len(d) : d[i].lex_id = i - 1

(* I2: a parent is absent, or in 0..N-1 and not the node itself *)
ParentsInRange(d) ==
    \A i \in 1..Len(d) :
        d[i].parent_id = <<>> \/ d[i].parent_id[1] \in 0..(Len(d) - 1)

I2(d) ==
    /\ ParentsInRange(d)
    /\ \A i \in 1..Len(d) : d[i].parent_id # <<i - 1>>

ChildNodes(d, p) == {j \in 1..Len(d) : d[j].parent_id = <<d[p].lex_id>>}

(* I3: the children of p are the nodes whose parent is p, each once *)
I3(d) ==
    \A p \in 1..Len(d) :
        /\ \A k \in 1..Len(d[p].children) :
              \E j \in ChildNodes(d, p) : d[p].children[k] = Ref(d[j])
        /\ \A j \in ChildNodes(d, p) :
              Cardinality({k \in 1..Len(d[p].children) :
                              d[p].children[k] = Ref(d[j])}) = 1
        /\ Len(d[p].children) = Cardinality(ChildNodes(d, p))

(* I4: the (lemma, derivation pattern) pairs are unique *)
UniquePairs(d) ==
    \A i, j \in 1..Len(d) :
        (d[i].lemma = d[j].lemma /\ d[i].morph = d[j].morph) => i = j

RECURSIVE ReachesRoot(_, _, _)
ReachesRoot(d, i, fuel) ==
    IF d[i].parent_id = <<>> THEN TRUE
    ELSE IF fuel = 0 THEN FALSE
    ELSE ReachesRoot(d, d[i].parent_id[1] + 1, fuel - 1)

(* I5: following the parents from any node ends at a root *)
I5(d) == \A i \in 1..Len(d) : ReachesRoot(d, i, Len(d))

ValidStore(d) == I1(d) /\ I2(d) /\ I3(d) /\ I5(d)

PairOf(node) == <<node.lemma, node.morph>>

Edges(d) ==
    {<<PairOf(d[i]), PairOf(d[Pos(Len(d), d[i].parent_id[1])])>> :
        i \in {j \in 1..Len(d) : d[j].parent_id # <<>>}}

Roots(d) == {PairOf(d[i]) : i \in {j \in 1..Len(d) : d[j].parent_id = <<>>}}

(* the file a load call read, and whether the call read one *)
LoadedFile == result.args[2]

LoadRan == result.op = "load" /\ Len(result.args) = 2

(* ------------------------------- claims ------------------------------- *)

(* C1: in every state reached by one load of a valid input followed by   *)
(* any number of lex_sort calls, the children of every node p are        *)
(* exactly the nodes whose parent is p, each appearing exactly once.     *)
C1_ChildrenAreInverseOfParent ==
    (origin.op \in {"load", "lex_sort"} /\ origin.valid /\ origin.exc = "none")
        => I3(data)

C1_Witness ==
    /\ result.op = "lex_sort"
    /\ result.prior.op = "lex_sort"
    /\ origin.valid /\ origin.exc = "none"
    /\ \E p \in 1..Len(data) : Len(data[p].children) >= 2

(* C2: on a valid Store (ids equal to positions, parents in range,       *)
(* unique (lemma, pattern) pairs) lex_sort preserves the set of          *)
(* (child pair, parent pair) edges, and a node without a parent stays    *)
(* without one.                                                          *)
C2_SortPreservesEdges ==
    [][(result'.op = "lex_sort"
          /\ I1(data) /\ ParentsInRange(data) /\ UniquePairs(data))
         => (Edges(data') = Edges(data) /\ Roots(data') = Roots(data))]_vars

C2_Witness ==
    /\ result.op = "lex_sort"
    /\ result.exc = "none"
    /\ result.changed
    /\ UniquePairs(data)
    /\ \E i \in 1..Len(data) :
          data[i].parent_id # <<>> /\ data[i].parent_id[1] > i - 1
    /\ \E i \in 1..Len(data) :
          data[i].parent_id # <<>> /\ data[i].parent_id[1] < i - 1

(* C3: after lex_sort completes on a loaded Store, for every node n      *)
(* get_id_by_lemma(n.lemma, n.morph) returns n's new id.                 *)
C3_IndexFollowsSort ==
    (result.op = "lex_sort" /\ result.exc = "none"
       /\ result.prior.op = "load" /\ origin.valid /\ UniquePairs(data))
        => \A i \in 1..Len(data) :
              get_id_by_lemma(index, data[i].lemma, Some(data[i].morph))
                  = Some(i - 1)

(* C4: get_id_by_lemma returns NotFound for an absent lemma, the only id *)
(* of a lemma with one id, the id of the matching pattern of a lemma     *)
(* with several ids, and otherwise Ambiguous, an outcome the caller can  *)
(* tell from NotFound.                                                   *)
NotFoundOutcome == get_id_by_lemma(index, OtherLemma, None)

C4_ThreeWayLookup ==
    result.op = "get_id_by_lemma" =>
        LET lemma == result.args[1]
            morph == result.args[2]
        IN  IF lemma \notin DOMAIN index
            THEN result.ret = NotFoundOutcome
            ELSE IF Cardinality(DOMAIN index[lemma]) = 1
            THEN \E m \in DOMAIN index[lemma] :
                    result.ret = Some(index[lemma][m])
            ELSE IF morph # None /\ morph[1] \in DOMAIN index[lemma]
            THEN result.ret = Some(index[lemma][morph[1]])
            ELSE /\ \A m \in DOMAIN index[lemma] :
                      result.ret # Some(index[lemma][m])
                 /\ result.ret # NotFoundOutcome

(* C5: for every node id of a loaded valid forest get_subtree_by_id      *)
(* returns the node with the list of its children's subtrees, in         *)
(* children order, and leaves the Store unchanged.                       *)
RECURSIVE Subtree(_, _)
Subtree(d, lex_id) ==
    <<d[lex_id + 1],
      [k \in 1..Len(d[lex_id + 1].children) |->
          Subtree(d, d[lex_id + 1].children[k].lex_id)]>>

C5_SubtreeOfForest ==
    (result.op = "get_subtree_by_id" /\ result.prior.op = "load"
       /\ ValidStore(data) /\ UniquePairs(data)
       /\ result.args[1] \in 0..(Len(data) - 1))
        => /\ result.exc = "none"
           /\ result.ret = Some(Subtree(data, result.args[1]))
           /\ ~result.changed

(* C6: a load of an input with a parent reference outside 0..N-1 fails   *)
(* and leaves the node sequence, the children lists and the Lemma Index  *)
(* as they were before the call.                                         *)
C6_DanglingParentFailsCleanly ==
    (LoadRan /\ \E i \in 1..Len(LoadedFile) :
                   /\ LoadedFile[i][5] # <<>>
                   /\ LoadedFile[i][5][1] \notin 0..(Len(LoadedFile) - 1))
        => (result.exc # "none" /\ ~result.changed)

(* C7: a load of an input whose last stated id differs from N-1, with    *)
(* every parent in range, still succeeds with all N records stored and   *)
(* their children linked.                                                *)
C7_MismatchIsOnlyAWarning ==
    (LoadRan /\ Len(LoadedFile) > 0
       /\ LoadedFile[Len(LoadedFile)][1] # Len(LoadedFile) - 1
       /\ \A i \in 1..Len(LoadedFile) :
             \/ LoadedFile[i][5] = <<>>
             \/ LoadedFile[i][5][1] \in 0..(Len(LoadedFile) - 1))
        => /\ result.exc = "none"
           /\ Len(data) = Len(LoadedFile)
           /\ \A i \in 1..Len(data) :
                 data[i].parent_id # <<>> =>
                    \E k \in 1..Len(data[data[i].parent_id[1] + 1].children) :
                       data[data[i].parent_id[1] + 1].children[k].lemma
                           = data[i].lemma

(* C8: after every successful load the node at position i has id i, and  *)
(* every id in the Lemma Index is the position of the node it was        *)
(* inserted for.                                                         *)
C8_IdsArePositions ==
    (LoadRan /\ result.exc = "none")
        => /\ I1(data)
           /\ \A i \in 1..Len(data) :
                 get_lexeme_by_id(data, i - 1).ret[1].lex_id = i - 1
           /\ \A lemma \in DOMAIN index : \A morph \in DOMAIN index[lemma] :
                 /\ index[lemma][morph] \in 0..(Len(data) - 1)
                 /\ PairOf(data[index[lemma][morph] + 1]) = <<lemma, morph>>

(* C9: on a Store that load produced, lex_sort either completes with a   *)
(* Store satisfying I1-I5 or reports an error and leaves the Store as it *)
(* was.                                                                  *)
C9_SortIsAtomic ==
    (result.op = "lex_sort" /\ result.prior.op = "load"
       /\ result.prior.exc = "none")
        => \/ result.exc = "none" /\ ValidStore(data)
           \/ result.exc # "none" /\ ~result.changed

(* C10: update_from_file and update always fail with NotImplemented and  *)
(* leave the Store and the Lemma Index unchanged.                        *)
C10_UpdateIsNotImplemented ==
    result.op \in {"update_from_file", "update"}
        => (result.exc = "NotImplementedError" /\ ~result.changed)

====
